---- MODULE Spec2Model ----
(***************************************************************************)
(* RoboKar line follower (robosample.c) under uC/OS-II.                    *)
(*                                                                         *)
(* Three worker tasks share the record myrobot and a few file statics:     *)
(*   CheckCollision (priority 2), CntrlMotors (priority 3), Navig          *)
(*   (priority 4).  The kernel is preemptive with fixed priorities: a task *)
(* runs only while every task of higher priority sleeps in OSTimeDlyHMSM,  *)
(* and a sleeping task of higher priority may wake between any two         *)
(* statements of a lower one.  Each task is modelled statement by          *)
(* statement at the accesses other tasks can observe (the shared fields    *)
(* and the calls to the motor driver).                                     *)
(***************************************************************************)
EXTENDS Integers, Sequences, FiniteSets

\* ------------------------------------------------------------ constants
STOP_SPEED == 0
LOW_SPEED == 30
MEDIUM_SPEED == 50
REVERSE_SPEED == -30

lightThreshold == 70

\* typedef enum { CP_START, CP_A, ..., CP_DONE } CpState;
CP_START == 0
CP_A == 1
CP_B == 2
CP_C == 3
CP_D == 4
CP_E == 5
CP_F == 6
CP_DONE == 7

\* Thresholds of the obstacle recovery timers and of the lost-line escalation
BackupTicks == 10
TurnTicks == 15
SeekTicks == 20
LostReverse == 5
LostTurn == 15
LostWrap == 25
SpiralPeriod == 5

\* ------------------------------------------------------------ inputs
\* Sensor readings the environment can produce.  AllCodes is every value of the
\* 3-bit line sensor.  LightVals straddles lightThreshold.
AllCodes == 0 .. 7
LightVals == {lightThreshold, lightThreshold + 1}
ProxVals == BOOLEAN

\* Scenario of the timed obstacle: the proximity sensor reads blocked for the
\* first BlockedCycles cycles of CheckCollision and clear afterwards.
BlockedCycles == 3
ExtraCycles == 3

VARIABLES
    lspeed, rspeed, obstacle, score, lightDetected,   \* struct robostate myrobot
    cp_state, seenL1, seenL2, performedL2Task,        \* file statics
    obstacle_recovery_state, obstacle_timer,          \* statics of CheckCollision
    current_obstacle, cpc,                            \* local and position of CheckCollision
    mpc,                                              \* position of CntrlMotors
    lost_counter, recovery_direction, last_valid_code,\* statics of Navig
    code, lightVal, npc,                              \* locals and position of Navig
    motor,                                            \* last <<left, right>> given to robo_motorSpeed
    honks,                                            \* robo_Honk calls of Navig in this pass of its loop
    cycles                                            \* readings taken so far in a scenario

robot == <<lspeed, rspeed, obstacle, score, lightDetected>>
marks == <<cp_state, seenL1, seenL2, performedL2Task>>
ccVars == <<obstacle_recovery_state, obstacle_timer, current_obstacle, cpc>>
lostVars == <<lost_counter, recovery_direction, last_valid_code>>
navLocals == <<code, lightVal, npc>>
vars == <<robot, marks, ccVars, lostVars, navLocals, mpc, motor, cycles, honks>>

\* ------------------------------------------------------------ main()
Init ==
    /\ lspeed = STOP_SPEED
    /\ rspeed = STOP_SPEED
    /\ obstacle = FALSE
    /\ score = 0
    /\ lightDetected = FALSE
    /\ cp_state = CP_START
    /\ seenL1 = FALSE
    /\ seenL2 = FALSE
    /\ performedL2Task = FALSE
    /\ obstacle_recovery_state = 0
    /\ obstacle_timer = 0
    /\ current_obstacle = FALSE
    /\ cpc = "sleep"
    /\ mpc = "sleep"
    /\ lost_counter = 0
    /\ recovery_direction = 1
    /\ last_valid_code = 2
    /\ code = 0
    /\ lightVal = 0
    /\ npc = "read"
    /\ motor = <<STOP_SPEED, STOP_SPEED>>
    /\ honks = 0
    /\ cycles = 0

\* ------------------------------------------------------------ CheckCollision
\* The task of highest priority among the three: once awake it runs to its
\* delay without the other two running.
\* current_obstacle is declared in the loop body: it is dead at the delay and
\* is cleared there, as code and lightVal of Navig are at the end of its body.

\* char current_obstacle = (robo_proxSensor() == 1);
CCRead(p) ==
    /\ cpc = "sleep"
    /\ current_obstacle' = p
    /\ cpc' = "test"
    /\ UNCHANGED <<robot, marks, obstacle_recovery_state, obstacle_timer,
                   lostVars, navLocals, mpc, motor, honks>>

CC_Read ==
    /\ \E p \in ProxVals : CCRead(p)
    /\ UNCHANGED cycles

\* The same read under the timed-obstacle scenario.
CC_ReadScenario ==
    /\ CCRead(cycles < BlockedCycles)
    /\ cycles' = IF cycles < BlockedCycles + (BackupTicks + 1) + (TurnTicks + 1)
                                 + (SeekTicks + 1) + ExtraCycles
                 THEN cycles + 1 ELSE cycles

\* Mutant: the flag is not yet set when the stop command is given.
CC_DetectFlagLate ==
    /\ cpc = "test"
    /\ current_obstacle /\ ~obstacle
    /\ obstacle_recovery_state' = 0
    /\ obstacle_timer' = 0
    /\ cpc' = "new"
    /\ UNCHANGED <<robot, marks, current_obstacle, lostVars, navLocals, motor, cycles, mpc, honks>>

\* if (current_obstacle && !myrobot.obstacle) { obstacle = 1; state = 0; timer = 0;
CC_Detect ==
    /\ cpc = "test"
    /\ current_obstacle /\ ~obstacle
    /\ obstacle' = TRUE
    /\ obstacle_recovery_state' = 0
    /\ obstacle_timer' = 0
    /\ cpc' = "new"
    /\ UNCHANGED <<lspeed, rspeed, score, lightDetected, marks, current_obstacle,
                   lostVars, navLocals, motor, cycles, mpc, honks>>

\* robo_motorSpeed(STOP_SPEED, STOP_SPEED); robo_Honk(); }  then the delay
CC_StopNew ==
    /\ cpc = "new"
    /\ motor' = <<STOP_SPEED, STOP_SPEED>>
    /\ current_obstacle' = FALSE
    /\ cpc' = "sleep"
    /\ UNCHANGED <<robot, marks, obstacle_recovery_state, obstacle_timer,
                   lostVars, navLocals, cycles, mpc, honks>>

\* else if (myrobot.obstacle) { if (!current_obstacle) { obstacle_timer++;
CC_Tick ==
    /\ cpc = "test"
    /\ ~(current_obstacle /\ ~obstacle)
    /\ obstacle /\ ~current_obstacle
    /\ obstacle_timer' = obstacle_timer + 1
    /\ cpc' = "cmd"
    /\ UNCHANGED <<robot, marks, obstacle_recovery_state, current_obstacle,
                   lostVars, navLocals, motor, cycles, mpc, honks>>

\* The command each recovery sub-state gives to the motor driver:
\* 0 backing up, 1 turning, 2 seeking the line.
RecoveryCmd(st) ==
    CASE st = 0 -> <<REVERSE_SPEED, REVERSE_SPEED>>
      [] st = 1 -> <<LOW_SPEED, -LOW_SPEED>>
      [] st = 2 -> <<LOW_SPEED, LOW_SPEED>>

\* switch (obstacle_recovery_state) { case n: robo_motorSpeed(...);
CC_Cmd ==
    /\ cpc = "cmd"
    /\ obstacle_recovery_state \in {0, 1, 2}
    /\ motor' = RecoveryCmd(obstacle_recovery_state)
    /\ cpc' = "adv"
    /\ UNCHANGED <<robot, marks, obstacle_recovery_state, obstacle_timer,
                   current_obstacle, lostVars, navLocals, cycles, mpc, honks>>

\* Mutant: backing up goes straight to seeking the line.
NextRecoveryStateSkips(st) == 2

\* The sub-state that follows st once its timer has run out.
NextRecoveryState(st) == st + 1

\* case 0: if (obstacle_timer > 10) { state = 1; timer = 0; } break;
\* case 1: if (obstacle_timer > 15) { state = 2; timer = 0; } break;
CC_AdvanceTimed ==
    /\ cpc = "adv"
    /\ obstacle_recovery_state \in {0, 1}
    /\ IF \/ obstacle_recovery_state = 0 /\ obstacle_timer > BackupTicks
          \/ obstacle_recovery_state = 1 /\ obstacle_timer > TurnTicks
       THEN /\ obstacle_recovery_state' = NextRecoveryState(obstacle_recovery_state)
            /\ obstacle_timer' = 0
       ELSE UNCHANGED <<obstacle_recovery_state, obstacle_timer>>
    /\ current_obstacle' = FALSE
    /\ cpc' = "sleep"
    /\ UNCHANGED <<robot, marks, lostVars, navLocals, motor, cycles, mpc, honks>>

\* case 2: if (robo_lineSensor() != 0 || obstacle_timer > 20)
\*             { myrobot.obstacle = 0; state = 0; timer = 0; } break;
\* Mutant: seeking the line has no timeout.
SeekDoneNoTimeout(line, timer) == line # 0

SeekDone(line, timer) == line # 0 \/ timer > SeekTicks

CCAdvanceSeek(line) ==
    /\ cpc = "adv"
    /\ obstacle_recovery_state = 2
    /\ IF SeekDone(line, obstacle_timer)
       THEN /\ obstacle' = FALSE
            /\ obstacle_recovery_state' = 0
            /\ obstacle_timer' = 0
       ELSE UNCHANGED <<obstacle, obstacle_recovery_state, obstacle_timer>>
    /\ current_obstacle' = FALSE
    /\ cpc' = "sleep"
    /\ UNCHANGED <<lspeed, rspeed, score, lightDetected, marks, lostVars,
                   navLocals, motor, cycles, mpc, honks>>

\* CheckCollision only compares the reading with 0.
CC_AdvanceSeek == \E line \in AllCodes : CCAdvanceSeek(line)

\* Mutant: a blocked reading during recovery gives the recovery up.
CC_HoldReleases ==
    /\ cpc = "test"
    /\ obstacle /\ current_obstacle
    /\ motor' = <<STOP_SPEED, STOP_SPEED>>
    /\ obstacle' = FALSE
    /\ current_obstacle' = FALSE
    /\ cpc' = "sleep"
    /\ UNCHANGED <<lspeed, rspeed, score, lightDetected, marks, obstacle_recovery_state,
                   obstacle_timer, lostVars, navLocals, cycles, mpc, honks>>

\* Mutant: a blocked reading during recovery restarts the recovery.
CC_HoldRestarts ==
    /\ cpc = "test"
    /\ obstacle /\ current_obstacle
    /\ motor' = <<STOP_SPEED, STOP_SPEED>>
    /\ obstacle_recovery_state' = 0
    /\ obstacle_timer' = 0
    /\ current_obstacle' = FALSE
    /\ cpc' = "sleep"
    /\ UNCHANGED <<robot, marks, lostVars, navLocals, cycles, mpc, honks>>

\* } else { robo_motorSpeed(STOP_SPEED, STOP_SPEED); }   obstacle still present
CC_Hold ==
    /\ cpc = "test"
    /\ ~(current_obstacle /\ ~obstacle)
    /\ obstacle /\ current_obstacle
    /\ motor' = <<STOP_SPEED, STOP_SPEED>>
    /\ current_obstacle' = FALSE
    /\ cpc' = "sleep"
    /\ UNCHANGED <<robot, marks, obstacle_recovery_state, obstacle_timer,
                   lostVars, navLocals, cycles, mpc, honks>>

\* } else { myrobot.obstacle = 0; }
CC_Idle ==
    /\ cpc = "test"
    /\ ~(current_obstacle /\ ~obstacle)
    /\ ~obstacle
    /\ obstacle' = FALSE
    /\ current_obstacle' = FALSE
    /\ cpc' = "sleep"
    /\ UNCHANGED <<lspeed, rspeed, score, lightDetected, marks,
                   obstacle_recovery_state, obstacle_timer, lostVars, navLocals,
                   motor, cycles, mpc, honks>>

CCBody ==
    \/ CC_Detect
    \/ CC_StopNew
    \/ CC_Tick
    \/ CC_Cmd
    \/ CC_AdvanceTimed
    \/ CC_AdvanceSeek
    \/ CC_Hold
    \/ CC_Idle

\* ------------------------------------------------------------ CntrlMotors
\* The task of middle priority.  Navig cannot run between its wake-up and its
\* delay, and CheckCollision, which can, writes neither field: the locals
\* speed_r and speed_l hold the values of the fields up to the call.

\* OSTimeDlyHMSM returns; speed_r = myrobot.rspeed; speed_l = myrobot.lspeed;
CM_Read ==
    /\ mpc = "sleep"
    /\ cpc = "sleep"
    /\ mpc' = "call"
    /\ UNCHANGED <<robot, marks, ccVars, lostVars, navLocals, motor, cycles, honks>>

\* robo_motorSpeed(speed_l, speed_r); OSTimeDlyHMSM(0, 0, 0, 100);
CM_Call ==
    /\ mpc = "call"
    /\ cpc = "sleep"
    /\ LET speed_r == rspeed
           speed_l == lspeed
       IN  motor' = <<speed_l, speed_r>>
    /\ mpc' = "sleep"
    /\ UNCHANGED <<robot, marks, ccVars, lostVars, navLocals, cycles, honks>>

CntrlMotors ==
    \/ CM_Read
    \/ CM_Call

\* ------------------------------------------------------------ Navig
\* The task of lowest priority: it runs only while CheckCollision and
\* CntrlMotors sleep; either may run between two of its steps, which are cut
\* at the accesses to shared data and at every delay inside the loop body.

\* MEDIUM_SPEED * 0.7 and MEDIUM_SPEED * 0.8 stored in an int field.
Scale(v, tenths) == (v * tenths) \div 10

\* Mutant: the thresholds of the escalation are compared with <=.
LostSetpointLate(lc, lvc, rd) ==
    IF lc <= LostReverse
    THEN <<REVERSE_SPEED, REVERSE_SPEED>>
    ELSE IF lc <= LostTurn
         THEN IF lvc = 1 \/ lvc = 3
              THEN <<LOW_SPEED, -LOW_SPEED>>
              ELSE IF lvc = 4 \/ lvc = 6
                   THEN <<-LOW_SPEED, LOW_SPEED>>
                   ELSE <<rd * MEDIUM_SPEED, (-rd) * MEDIUM_SPEED>>
         ELSE <<LOW_SPEED, LOW_SPEED>>

\* case 0 of switch (code): the pair assigned to lspeed/rspeed, lc being
\* lost_counter after its increment.
LostSetpoint(lc, lvc, rd) ==
    IF lc < LostReverse
    THEN <<REVERSE_SPEED, REVERSE_SPEED>>
    ELSE IF lc < LostTurn
         THEN IF lvc = 1 \/ lvc = 3
              THEN <<LOW_SPEED, -LOW_SPEED>>
              ELSE IF lvc = 4 \/ lvc = 6
                   THEN <<-LOW_SPEED, LOW_SPEED>>
                   ELSE <<rd * MEDIUM_SPEED, (-rd) * MEDIUM_SPEED>>
         ELSE <<LOW_SPEED, LOW_SPEED>>

\* Mutant: the corrections for a line on the right and on the left are swapped.
LineSetpointMirrored(c, lc, lvc, rd) ==
    CASE c = 0 -> LostSetpoint(lc, lvc, rd)
      [] c = 4 -> <<MEDIUM_SPEED, Scale(MEDIUM_SPEED, 7)>>
      [] c = 2 -> <<MEDIUM_SPEED, MEDIUM_SPEED>>
      [] c = 6 -> <<MEDIUM_SPEED, Scale(MEDIUM_SPEED, 8)>>
      [] c = 1 -> <<Scale(MEDIUM_SPEED, 7), MEDIUM_SPEED>>
      [] c = 3 -> <<Scale(MEDIUM_SPEED, 8), MEDIUM_SPEED>>
      [] c = 7 -> <<STOP_SPEED, STOP_SPEED>>
      [] c = 5 -> <<LOW_SPEED, LOW_SPEED>>
      [] OTHER -> <<LOW_SPEED, LOW_SPEED>>

\* switch (code): the pair the line-following switch first assigns.
LineSetpoint(c, lc, lvc, rd) ==
    CASE c = 0 -> LostSetpoint(lc, lvc, rd)
      [] c = 1 -> <<MEDIUM_SPEED, Scale(MEDIUM_SPEED, 7)>>
      [] c = 2 -> <<MEDIUM_SPEED, MEDIUM_SPEED>>
      [] c = 3 -> <<MEDIUM_SPEED, Scale(MEDIUM_SPEED, 8)>>
      [] c = 4 -> <<Scale(MEDIUM_SPEED, 7), MEDIUM_SPEED>>
      [] c = 6 -> <<Scale(MEDIUM_SPEED, 8), MEDIUM_SPEED>>
      [] c = 7 -> <<STOP_SPEED, STOP_SPEED>>
      [] c = 5 -> <<LOW_SPEED, LOW_SPEED>>
      [] OTHER -> <<LOW_SPEED, LOW_SPEED>>

\* lost_counter after the switch: if (lost_counter > 25) lost_counter = 0;
\* in the branch taken once lost_counter >= 15.
LostWrapped(lc) == IF lc >= LostTurn /\ lc > LostWrap THEN 0 ELSE lc

\* recovery_direction after the switch: flipped in the spiral branch when
\* lost_counter % 5 == 0.
SpiralFlip(lc, lvc, rd) ==
    IF /\ lc >= LostReverse /\ lc < LostTurn
       /\ lvc \notin {1, 3, 4, 6}
       /\ lc % SpiralPeriod = 0
    THEN -rd ELSE rd

\* code = robo_lineSensor(); lightVal = robo_lightSensor(); prox is read and
\* never used. if (code != 0) { last_valid_code = code; lost_counter = 0; }
\* switch (code) { case 0: lost_counter++;
NRead(c, lv) ==
    /\ npc = "read"
    /\ cpc = "sleep" /\ mpc = "sleep"
    /\ code' = c
    /\ lightVal' = lv
    /\ IF c # 0
       THEN /\ last_valid_code' = c
            /\ lost_counter' = 0
       ELSE /\ last_valid_code' = last_valid_code
            /\ lost_counter' = lost_counter + 1
    /\ npc' = "sw_l"
    /\ UNCHANGED <<robot, marks, ccVars, recovery_direction, mpc, motor, honks>>

N_Read ==
    /\ \E c \in AllCodes, lv \in LightVals : NRead(c, lv)
    /\ UNCHANGED cycles

\* myrobot.lspeed = ...;   first assignment of the case taken
N_SwitchL ==
    /\ npc = "sw_l"
    /\ cpc = "sleep" /\ mpc = "sleep"
    /\ lspeed' = LineSetpoint(code, lost_counter, last_valid_code, recovery_direction)[1]
    /\ npc' = "sw_r"
    /\ UNCHANGED <<rspeed, obstacle, score, lightDetected, marks, ccVars,
                   lostVars, code, lightVal, motor, cycles, mpc, honks>>

\* myrobot.rspeed = ...;   and what case 0 does after it
N_SwitchR ==
    /\ npc = "sw_r"
    /\ cpc = "sleep" /\ mpc = "sleep"
    /\ rspeed' = LineSetpoint(code, lost_counter, last_valid_code, recovery_direction)[2]
    /\ IF code = 0
       THEN /\ recovery_direction' =
                   SpiralFlip(lost_counter, last_valid_code, recovery_direction)
            /\ lost_counter' = LostWrapped(lost_counter)
       ELSE UNCHANGED <<recovery_direction, lost_counter>>
    /\ npc' = IF code = 7 THEN "bar_l" ELSE "light"
    /\ UNCHANGED <<lspeed, obstacle, score, lightDetected, marks, ccVars,
                   last_valid_code, code, lightVal, motor, cycles, mpc, honks>>

\* case 7: OSTimeDlyHMSM(0, 0, 0, 200); myrobot.lspeed = MEDIUM_SPEED;
N_BarL ==
    /\ npc = "bar_l"
    /\ cpc = "sleep" /\ mpc = "sleep"
    /\ lspeed' = MEDIUM_SPEED
    /\ npc' = "bar_r"
    /\ UNCHANGED <<rspeed, obstacle, score, lightDetected, marks, ccVars,
                   lostVars, code, lightVal, motor, cycles, mpc, honks>>

\* myrobot.rspeed = MEDIUM_SPEED;
N_BarR ==
    /\ npc = "bar_r"
    /\ cpc = "sleep" /\ mpc = "sleep"
    /\ rspeed' = MEDIUM_SPEED
    /\ npc' = "light"
    /\ UNCHANGED <<lspeed, obstacle, score, lightDetected, marks, ccVars,
                   lostVars, code, lightVal, motor, cycles, mpc, honks>>

\* if (lightVal > lightThreshold)
Bright(lv) == lv > lightThreshold

\* Mutant: L1 is recognised only before checkpoint B.
IsL1BeforeB(cp, s1) == cp < CP_B /\ ~s1

\* if (cp_state < CP_C && !seenL1)
IsL1(cp, s1) == cp < CP_C /\ ~s1

\* else if (cp_state >= CP_C && !seenL2)
IsL2(cp, s1, s2) == ~IsL1(cp, s1) /\ cp >= CP_C /\ ~s2

\* if (cp_state == CP_D && !performedL2Task)
IsL2Task(cp, done) == cp = CP_D /\ ~done

\* LED on, honk, lightDetected = 1; seenL1 = 1; score += 5; blinkLED(2, 100);
N_LightL1 ==
    /\ npc = "light"
    /\ cpc = "sleep" /\ mpc = "sleep"
    /\ Bright(lightVal)
    /\ IsL1(cp_state, seenL1)
    /\ lightDetected' = TRUE
    /\ seenL1' = TRUE
    /\ score' = score + 5
    /\ honks' = honks + 1
    /\ npc' = "cp"
    /\ UNCHANGED <<lspeed, rspeed, obstacle, cp_state, seenL2, performedL2Task,
                   ccVars, lostVars, code, lightVal, motor, cycles, mpc>>

\* LED on, honk, lightDetected = 1; seenL2 = 1;
\* if (cp_state == CP_D && !performedL2Task) { performedL2Task = 1; robo_Honk();
\* OSTimeDlyHMSM(0, 0, 0, 200);   (two calls of robo_Honk up to the delay of
\* the manoeuvre, one without the manoeuvre)
N_LightL2 ==
    /\ npc = "light"
    /\ cpc = "sleep" /\ mpc = "sleep"
    /\ Bright(lightVal)
    /\ IsL2(cp_state, seenL1, seenL2)
    /\ lightDetected' = TRUE
    /\ seenL2' = TRUE
    /\ IF IsL2Task(cp_state, performedL2Task)
       THEN /\ performedL2Task' = TRUE
            /\ honks' = honks + 2
            /\ npc' = "l2_honk"
       ELSE /\ performedL2Task' = performedL2Task
            /\ honks' = honks + 1
            /\ npc' = "cp"
    /\ UNCHANGED <<lspeed, rspeed, obstacle, score, cp_state, seenL1,
                   ccVars, lostVars, code, lightVal, motor, cycles, mpc>>

\* LED on, honk, lightDetected = 1; neither marker branch is taken
N_LightSeen ==
    /\ npc = "light"
    /\ cpc = "sleep" /\ mpc = "sleep"
    /\ Bright(lightVal)
    /\ ~IsL1(cp_state, seenL1)
    /\ ~IsL2(cp_state, seenL1, seenL2)
    /\ lightDetected' = TRUE
    /\ honks' = honks + 1
    /\ npc' = "cp"
    /\ UNCHANGED <<lspeed, rspeed, obstacle, score, marks,
                   ccVars, lostVars, code, lightVal, motor, cycles, mpc>>

\* Mutant: the L1 latch follows the light and drops when it goes dark.
N_LightOffUnlatches ==
    /\ npc = "light"
    /\ cpc = "sleep" /\ mpc = "sleep"
    /\ ~Bright(lightVal)
    /\ lightDetected' = FALSE
    /\ seenL1' = FALSE
    /\ npc' = "cp"
    /\ UNCHANGED <<lspeed, rspeed, obstacle, score, cp_state, seenL2, performedL2Task,
                   ccVars, lostVars, code, lightVal, motor, cycles, mpc, honks>>

\* else { if (myrobot.lightDetected) { robo_LED_off(); lightDetected = 0; } }
N_LightOff ==
    /\ npc = "light"
    /\ cpc = "sleep" /\ mpc = "sleep"
    /\ ~Bright(lightVal)
    /\ lightDetected' = FALSE
    /\ npc' = "cp"
    /\ UNCHANGED <<lspeed, rspeed, obstacle, score, marks,
                   ccVars, lostVars, code, lightVal, motor, cycles, mpc, honks>>

\* after the delay: robo_Honk();
N_L2Honk ==
    /\ npc = "l2_honk"
    /\ cpc = "sleep" /\ mpc = "sleep"
    /\ honks' = honks + 1
    /\ npc' = "l2_rev_l"
    /\ UNCHANGED <<robot, marks, ccVars, lostVars, code, lightVal, motor, cycles, mpc>>

\* The L2 manoeuvre: myrobot.lspeed = REVERSE_SPEED;
N_L2RevL ==
    /\ npc = "l2_rev_l"
    /\ cpc = "sleep" /\ mpc = "sleep"
    /\ lspeed' = REVERSE_SPEED
    /\ npc' = "l2_rev_r"
    /\ UNCHANGED <<rspeed, obstacle, score, lightDetected, marks, ccVars,
                   lostVars, code, lightVal, motor, cycles, mpc, honks>>

\* myrobot.rspeed = REVERSE_SPEED;
N_L2RevR ==
    /\ npc = "l2_rev_r"
    /\ cpc = "sleep" /\ mpc = "sleep"
    /\ rspeed' = REVERSE_SPEED
    /\ npc' = "l2_rev_cmd"
    /\ UNCHANGED <<lspeed, obstacle, score, lightDetected, marks, ccVars,
                   lostVars, code, lightVal, motor, cycles, mpc, honks>>

\* robo_motorSpeed(myrobot.lspeed, myrobot.rspeed); OSTimeDlyHMSM(0, 0, 1, 0);
N_L2RevCmd ==
    /\ npc = "l2_rev_cmd"
    /\ cpc = "sleep" /\ mpc = "sleep"
    /\ motor' = <<lspeed, rspeed>>
    /\ npc' = "l2_turn_l"
    /\ UNCHANGED <<robot, marks, ccVars, lostVars, code, lightVal, cycles, mpc, honks>>

\* myrobot.lspeed = MEDIUM_SPEED;
N_L2TurnL ==
    /\ npc = "l2_turn_l"
    /\ cpc = "sleep" /\ mpc = "sleep"
    /\ lspeed' = MEDIUM_SPEED
    /\ npc' = "l2_turn_r"
    /\ UNCHANGED <<rspeed, obstacle, score, lightDetected, marks, ccVars,
                   lostVars, code, lightVal, motor, cycles, mpc, honks>>

\* Mutant: the sign of the right wheel is lost in the turn.
N_L2TurnRForward ==
    /\ npc = "l2_turn_r"
    /\ cpc = "sleep" /\ mpc = "sleep"
    /\ rspeed' = LOW_SPEED
    /\ npc' = "l2_turn_cmd"
    /\ UNCHANGED <<lspeed, obstacle, score, lightDetected, marks, ccVars,
                   lostVars, code, lightVal, motor, cycles, mpc, honks>>

\* myrobot.rspeed = -LOW_SPEED;
N_L2TurnR ==
    /\ npc = "l2_turn_r"
    /\ cpc = "sleep" /\ mpc = "sleep"
    /\ rspeed' = -LOW_SPEED
    /\ npc' = "l2_turn_cmd"
    /\ UNCHANGED <<lspeed, obstacle, score, lightDetected, marks, ccVars,
                   lostVars, code, lightVal, motor, cycles, mpc, honks>>

\* robo_motorSpeed(myrobot.lspeed, myrobot.rspeed); OSTimeDlyHMSM(0, 0, 1, 500);
N_L2TurnCmd ==
    /\ npc = "l2_turn_cmd"
    /\ cpc = "sleep" /\ mpc = "sleep"
    /\ motor' = <<lspeed, rspeed>>
    /\ npc' = "l2_score"
    /\ UNCHANGED <<robot, marks, ccVars, lostVars, code, lightVal, cycles, mpc, honks>>

\* myrobot.score += 15;
N_L2Score ==
    /\ npc = "l2_score"
    /\ cpc = "sleep" /\ mpc = "sleep"
    /\ score' = score + 15
    /\ npc' = "cp"
    /\ UNCHANGED <<lspeed, rspeed, obstacle, lightDetected, marks, ccVars,
                   lostVars, code, lightVal, motor, cycles, mpc, honks>>

\* Mutant: the state is advanced modulo the number of states.
CpNextWraps(cp, c) == IF c = 7 THEN (cp + 1) % (CP_DONE + 1) ELSE cp

\* switch (cp_state): the state after the switch
CpNext(cp, c) == IF c = 7 /\ cp < CP_DONE THEN cp + 1 ELSE cp

\* Mutant: the start line scores like a checkpoint.
CpAwardStartScores(cp, c) ==
    IF c = 7 /\ cp \in {CP_START, CP_A, CP_B, CP_C, CP_D, CP_E, CP_F} THEN 5 ELSE 0

\* switch (cp_state): what the case taken adds to myrobot.score next to its
\* assignment of cp_state
CpAward(cp, c) ==
    IF c = 7 /\ cp \in {CP_A, CP_B, CP_C, CP_D, CP_E, CP_F} THEN 5 ELSE 0

\* Mutant: the L1 bonus at checkpoint A is forgotten.
CpBlinksNever(cp, c, s1) == FALSE

\* case CP_A: if (seenL1) { blinkLED(3, 150); myrobot.score += 10; }
CpBlinks(cp, c, s1) == cp = CP_A /\ c = 7 /\ s1

\* switch (cp_state): whether the case taken goes on to stop the motors
\* (case CP_F on a full bar, case CP_DONE always)
CpStops(cp, c) == (cp = CP_F /\ c = 7) \/ cp = CP_DONE

N_Checkpoint ==
    /\ npc = "cp"
    /\ cpc = "sleep" /\ mpc = "sleep"
    /\ cp_state' = CpNext(cp_state, code)
    /\ score' = score + CpAward(cp_state, code)
    /\ npc' = IF CpBlinks(cp_state, code, seenL1) THEN "cp_bonus"
              ELSE IF CpStops(cp_state, code) THEN "stop_l" ELSE "gate"
    /\ UNCHANGED <<lspeed, rspeed, obstacle, lightDetected, seenL1, seenL2,
                   performedL2Task, ccVars, lostVars, code, lightVal, motor, cycles, mpc, honks>>

\* Mutant: the L1 bonus at checkpoint A is doubled.
N_CpBonusDouble ==
    /\ npc = "cp_bonus"
    /\ cpc = "sleep" /\ mpc = "sleep"
    /\ score' = score + 20
    /\ npc' = "gate"
    /\ UNCHANGED <<lspeed, rspeed, obstacle, lightDetected, marks, ccVars,
                   lostVars, code, lightVal, motor, cycles, mpc, honks>>

\* after the delays of blinkLED(3, 150): myrobot.score += 10;
N_CpBonus ==
    /\ npc = "cp_bonus"
    /\ cpc = "sleep" /\ mpc = "sleep"
    /\ score' = score + 10
    /\ npc' = "gate"
    /\ UNCHANGED <<lspeed, rspeed, obstacle, lightDetected, marks, ccVars,
                   lostVars, code, lightVal, motor, cycles, mpc, honks>>

\* myrobot.lspeed = STOP_SPEED;
N_StopL ==
    /\ npc = "stop_l"
    /\ cpc = "sleep" /\ mpc = "sleep"
    /\ lspeed' = STOP_SPEED
    /\ npc' = "stop_r"
    /\ UNCHANGED <<rspeed, obstacle, score, lightDetected, marks, ccVars,
                   lostVars, code, lightVal, motor, cycles, mpc, honks>>

\* myrobot.rspeed = STOP_SPEED;
N_StopR ==
    /\ npc = "stop_r"
    /\ cpc = "sleep" /\ mpc = "sleep"
    /\ rspeed' = STOP_SPEED
    /\ npc' = "gate"
    /\ UNCHANGED <<lspeed, obstacle, score, lightDetected, marks, ccVars,
                   lostVars, code, lightVal, motor, cycles, mpc, honks>>

\* if (myrobot.obstacle) { } else { ... }   the locals die at the end of the body
N_Gate ==
    /\ npc = "gate"
    /\ cpc = "sleep" /\ mpc = "sleep"
    /\ IF obstacle
       THEN /\ npc' = "read"
            /\ code' = 0
            /\ lightVal' = 0
            /\ honks' = 0
       ELSE /\ npc' = "apply"
            /\ UNCHANGED <<code, lightVal, honks>>
    /\ UNCHANGED <<robot, marks, ccVars, lostVars, motor, cycles, mpc>>

\* robo_motorSpeed(myrobot.lspeed, myrobot.rspeed); the delays; next iteration
N_Apply ==
    /\ npc = "apply"
    /\ cpc = "sleep" /\ mpc = "sleep"
    /\ motor' = <<lspeed, rspeed>>
    /\ npc' = "read"
    /\ code' = 0
    /\ lightVal' = 0
    /\ honks' = 0
    /\ UNCHANGED <<robot, marks, ccVars, lostVars, cycles, mpc>>

NavigBody ==
    \/ N_SwitchL
    \/ N_SwitchR
    \/ N_BarL
    \/ N_BarR
    \/ N_LightL1
    \/ N_LightL2
    \/ N_LightSeen
    \/ N_LightOff
    \/ N_L2Honk
    \/ N_L2RevL
    \/ N_L2RevR
    \/ N_L2RevCmd
    \/ N_L2TurnL
    \/ N_L2TurnR
    \/ N_L2TurnCmd
    \/ N_L2Score
    \/ N_Checkpoint
    \/ N_CpBonus
    \/ N_StopL
    \/ N_StopR
    \/ N_Gate
    \/ N_Apply

\* ------------------------------------------------------------ specifications
Next ==
    \/ CC_Read
    \/ CCBody
    \/ CntrlMotors
    \/ N_Read
    \/ NavigBody

\* The three tasks together, every reading free in every pass.
Spec == Init /\ [][Next]_vars

\* Navig alone, every reading free in every pass: no other task writes the
\* statics of Navig, the score or the checkpoint state.
NextNav ==
    \/ N_Read
    \/ NavigBody

SpecNav == Init /\ [][NextNav]_vars

\* CheckCollision and CntrlMotors under the timed-obstacle scenario.
NextObstacle ==
    \/ CC_ReadScenario
    \/ CCBody
    \/ CntrlMotors

SpecObstacle == Init /\ [][NextObstacle]_vars

\* The start-line scenario: Navig reads the line codes of Script in order with
\* the light at the threshold (not above it), the proximity sensor reads clear,
\* and Navig is followed to the end of the last cycle.
Script == <<2, 2, 2, 7>>

N_ReadScript ==
    /\ cycles < Len(Script)
    /\ NRead(Script[cycles + 1], lightThreshold)
    /\ cycles' = cycles + 1

CC_ReadClear ==
    /\ CCRead(FALSE)
    /\ UNCHANGED cycles

NextBar ==
    \/ N_ReadScript
    \/ N_SwitchL
    \/ N_SwitchR
    \/ N_BarL
    \/ N_BarR
    \/ N_LightOff
    \/ N_Checkpoint
    \/ N_Gate
    \/ N_Apply
    \/ CntrlMotors
    \/ CC_ReadClear
    \/ CC_Idle

SpecBar == Init /\ [][NextBar]_vars

\* The course scenario: Navig reads the <<line code, light>> pairs of Course in
\* order (start bar, L1 light before checkpoint B, bars to D, L2 light at D,
\* bars to the finish, one reading after the finish) and is followed to the
\* end of the last cycle; CheckCollision reads any proximity value in every
\* pass and CntrlMotors runs as in Spec.
Course == << <<2, 70>>, <<7, 70>>, <<2, 71>>, <<7, 70>>, <<7, 70>>, <<7, 70>>,
            <<2, 71>>, <<2, 71>>, <<7, 70>>, <<7, 70>>, <<7, 70>>, <<2, 70>> >>

N_ReadCourse ==
    /\ cycles < Len(Course)
    /\ NRead(Course[cycles + 1][1], Course[cycles + 1][2])
    /\ cycles' = cycles + 1

NextCourse ==
    \/ CC_Read
    \/ CCBody
    \/ CntrlMotors
    \/ N_ReadCourse
    \/ NavigBody

SpecCourse == Init /\ [][NextCourse]_vars

\* The blocked-sensor scenario: the proximity sensor reads blocked in every
\* CheckCollision cycle, so CheckCollision detects the obstacle once and then
\* holds; CntrlMotors runs as in Spec and Navig drives the course.
CC_ReadBlocked ==
    /\ CCRead(TRUE)
    /\ UNCHANGED cycles

NextBlocked ==
    \/ CC_ReadBlocked
    \/ CC_Detect
    \/ CC_StopNew
    \/ CC_Hold
    \/ CntrlMotors
    \/ N_ReadCourse
    \/ NavigBody

SpecBlocked == Init /\ [][NextBlocked]_vars

\* ------------------------------------------------------------ steps named by the claims
\* Positions of Navig whose next statement assigns myrobot.lspeed or
\* myrobot.rspeed, or calls robo_motorSpeed.
NavFieldPcs == {"sw_l", "sw_r", "bar_l", "bar_r", "l2_rev_l", "l2_rev_r",
                "l2_turn_l", "l2_turn_r", "stop_l", "stop_r"}
NavCallPcs == {"l2_rev_cmd", "l2_turn_cmd", "apply"}

\* Navig executes a statement that writes a setpoint or commands the driver.
NavigWrites == npc \in (NavFieldPcs \cup NavCallPcs) /\ npc' # npc

\* CheckCollision calls robo_motorSpeed: the stop of a new obstacle, the
\* command of a recovery sub-state, or the stop of an obstacle still present.
CollisionCalls ==
    \/ cpc \in {"new", "cmd"} /\ cpc' # cpc
    \/ cpc = "test" /\ current_obstacle /\ cpc' = "sleep"

\* CntrlMotors calls robo_motorSpeed.
MotorOutputStep == mpc = "call" /\ mpc' # mpc

\* Some task gives a pair to the motor driver.
DriverCall ==
    \/ CollisionCalls
    \/ npc \in NavCallPcs /\ npc' # npc
    \/ MotorOutputStep

\* The pairs Navig assigns to lspeed and rspeed as one update: the cases of
\* the line switch, the restart after a bar, the two legs of the L2
\* manoeuvre and the final stop.
NavPairs ==
    {LineSetpoint(c, lc, lvc, rd) :
        c \in AllCodes, lc \in 1..(LostWrap + 1), lvc \in 1..7, rd \in {-1, 1}}
    \cup {<<MEDIUM_SPEED, MEDIUM_SPEED>>, <<REVERSE_SPEED, REVERSE_SPEED>>,
          <<MEDIUM_SPEED, -LOW_SPEED>>, <<STOP_SPEED, STOP_SPEED>>}

\* Navig executes the checkpoint switch.
CheckpointStep == npc = "cp" /\ npc' # npc

\* CheckCollision reads blocked while the obstacle flag is already set.
RenewedObstacle == cpc = "test" /\ current_obstacle /\ obstacle /\ cpc' # cpc

\* ------------------------------------------------------------ claims

\* C1: while myrobot.obstacle is true Navig never assigns lspeed/rspeed and
\* never calls the motor driver.
C1_NavigYieldsToObstacle == [][NavigWrites => ~obstacle]_vars

\* C2: every motor-driver command of CheckCollision is given while
\* myrobot.obstacle is true.
C2_CollisionCommandsWhileActive == [][CollisionCalls => obstacle]_vars

\* C2 witness: the seek-line command has been given and the flag is still set.
C2_Witness ==
    /\ cpc = "adv"
    /\ obstacle_recovery_state = 2
    /\ motor = <<LOW_SPEED, LOW_SPEED>>
    /\ obstacle

\* The points a cycle adds in the checkpoint switch: those of the step that
\* assigns cp_state, and the 10 added after blinkLED in case CP_A.
BonusStep == npc = "cp_bonus" /\ npc' # npc

\* C3 as claimed: on a full bar every state before DONE, START included,
\* advances by one and adds 5 to the score (15 in all from A with seenL1).
C3_EveryBarScores ==
    [][/\ (CheckpointStep /\ code = 7 /\ cp_state < CP_DONE)
            => /\ cp_state' = cp_state + 1
               /\ score' = score + 5
               /\ (npc' = "cp_bonus") <=> (cp_state = CP_A /\ seenL1)
       /\ BonusStep => score' = score + 10]_vars

\* C3 amended: on a full bar every state before DONE advances by one; the
\* switch adds 0 to the score from START and 5 otherwise, and from A with
\* seenL1 it adds 10 more after the blinks, 15 in all.
C3_BarAdvancesAndScores ==
    [][/\ (CheckpointStep /\ code = 7 /\ cp_state < CP_DONE)
            => /\ cp_state' = cp_state + 1
               /\ score' = score + (IF cp_state = CP_START THEN 0 ELSE 5)
               /\ (npc' = "cp_bonus") <=> (cp_state = CP_A /\ seenL1)
       /\ BonusStep => (score' = score + 10 /\ cp_state = CP_B /\ cp_state' = CP_B)]_vars

\* C3 witness: the switch has just gone from A to B with seenL1 set
\* (5 for L1, 15 for the step).
C3_Witness ==
    /\ npc = "gate"
    /\ code = 7
    /\ cp_state = CP_B
    /\ seenL1
    /\ score = 20

\* C4: cp_state never decreases, changes only in the checkpoint switch of a
\* cycle whose line reading is 7, and never leaves DONE.
C4_CheckpointMonotonic ==
    [][/\ cp_state' >= cp_state
       /\ (cp_state' # cp_state => CheckpointStep /\ code = 7)
       /\ (cp_state = CP_DONE => cp_state' = CP_DONE)]_vars

\* C4 witness: a later cycle, whose reading is not a full bar, has run the
\* switch in DONE.
C4_Witness == cp_state = CP_DONE /\ npc = "stop_l" /\ code = 2

\* C5: seenL1 and seenL2, once true, are never reset.
C5_LatchesHold == [][(seenL1 => seenL1') /\ (seenL2 => seenL2')]_vars

\* C5 witness: both latches are set and a cycle without light has passed the
\* light test.
C5_Witness == seenL1 /\ seenL2 /\ npc = "cp" /\ ~Bright(lightVal)

\* C6: with the line reading 0, lost_counter is incremented by one in each
\* cycle and is back at 0 after the cycle that takes it past 25; the pair
\* assigned is reverse below 5, a turn in place from 5 to 14, and LOW forward
\* from 15.  After the switch lost_counter = 0 only when it has wrapped.
C6_Regime ==
    (npc = "light" /\ code = 0) =>
        LET lc == IF lost_counter = 0 THEN LostWrap + 1 ELSE lost_counter
        IN  /\ lost_counter \in 0 .. LostWrap
            /\ lc < 5 => lspeed = REVERSE_SPEED /\ rspeed = REVERSE_SPEED
            /\ (5 <= lc /\ lc < 15) => lspeed # 0 /\ rspeed = -lspeed
            /\ lc >= 15 => lspeed = LOW_SPEED /\ rspeed = LOW_SPEED

C6_LostLineEscalation ==
    /\ []C6_Regime
    /\ [][(npc = "read" /\ npc' # npc /\ code' = 0)
            => lost_counter' = lost_counter + 1]_vars
    /\ [][(npc = "sw_r" /\ npc' # npc /\ code = 0)
            => lost_counter' = (IF lost_counter = LostWrap + 1 THEN 0 ELSE lost_counter)]_vars

\* C6 witness: after 26 cycles reading 0 the counter has wrapped.
C6_Witness ==
    /\ npc = "light"
    /\ code = 0
    /\ lost_counter = 0
    /\ lspeed = LOW_SPEED
    /\ rspeed = LOW_SPEED

\* C7: while the flag stays set the sub-state changes only by one step
\* forward, and the flag is cleared only from seeking the line.
C7_RecoveryInOrder ==
    [][/\ (obstacle /\ obstacle' /\ obstacle_recovery_state' # obstacle_recovery_state)
            => /\ obstacle_recovery_state' = obstacle_recovery_state + 1
               /\ obstacle_recovery_state' <= 2
       /\ (obstacle /\ ~obstacle') => obstacle_recovery_state = 2]_vars

\* C7 witness: the flag has just been cleared after the seek-line command.
C7_Witness ==
    /\ ~obstacle
    /\ cpc = "sleep"
    /\ motor = <<LOW_SPEED, LOW_SPEED>>

\* C8 as claimed: a blocked reading while the flag is set and the sub-state is
\* turning or seeking resets the sub-state to backing up and the timer to 0.
C8_RenewedObstacleResets ==
    [][(RenewedObstacle /\ obstacle_recovery_state \in {1, 2})
         => obstacle_recovery_state' = 0 /\ obstacle_timer' = 0]_vars

\* C8 amended: such a reading commands a stop and leaves the sub-state, the
\* timer and the flag as they are.  A blocked reading sets the sub-state and
\* the timer to backing up and 0 exactly when it finds the flag clear: it
\* does so with the flag clear and changes neither with the flag set.  Apart
\* from that the sub-state goes back to backing up only at the end of seeking
\* the line, after a clear reading, with the timer at 0 and the flag cleared.
C8_RenewedObstacleFreezes ==
    [][/\ (RenewedObstacle /\ obstacle_recovery_state \in {1, 2})
            => /\ obstacle_recovery_state' = obstacle_recovery_state
               /\ obstacle_timer' = obstacle_timer
               /\ obstacle'
               /\ motor' = <<STOP_SPEED, STOP_SPEED>>
       /\ (cpc = "test" /\ current_obstacle /\ ~obstacle /\ cpc' # cpc)
            => /\ obstacle_recovery_state' = 0
               /\ obstacle_timer' = 0
               /\ obstacle'
       /\ RenewedObstacle
            => UNCHANGED <<obstacle_recovery_state, obstacle_timer>>
       /\ (obstacle_recovery_state # 0 /\ obstacle_recovery_state' = 0)
            => /\ cpc = "adv"
               /\ ~current_obstacle
               /\ obstacle_recovery_state = 2
               /\ obstacle_timer' = 0
               /\ obstacle /\ ~obstacle']_vars

\* C8 witness: blocked is read in the middle of the turn.
C8_Witness ==
    /\ cpc = "test"
    /\ current_obstacle
    /\ obstacle
    /\ obstacle_recovery_state = 1
    /\ obstacle_timer > 0

\* Cycles of CheckCollision reading clear that backing up and turning take,
\* and that the whole recovery takes at most.
TurnDoneCycles == (BackupTicks + 1) + (TurnTicks + 1)
RecoveryCycles == TurnDoneCycles + (SeekTicks + 1)

\* C9: blocked for BlockedCycles cycles and clear afterwards: the flag is set
\* by the first cycle, stays set through backing up and turning and while the
\* line is sought, and is clear once RecoveryCycles clear cycles have run.
C9_ObstacleClearsInTime ==
    cpc = "sleep" =>
        /\ (1 <= cycles /\ cycles <= BlockedCycles + TurnDoneCycles) => obstacle
        /\ (cycles >= 1 /\ obstacle_recovery_state # 0) => obstacle
        /\ cycles >= BlockedCycles + RecoveryCycles => ~obstacle

\* C9 witness: the line was never found and the last clear cycle runs the
\* seek-line timer out.
C9_Witness ==
    /\ cycles = BlockedCycles + RecoveryCycles
    /\ cpc = "adv"
    /\ obstacle
    /\ obstacle_recovery_state = 2
    /\ obstacle_timer = SeekTicks + 1

\* C10: once cp_state is DONE no task gives the motor driver a pair other
\* than (0,0).
C10_StoppedAfterDone ==
    [][(cp_state = CP_DONE /\ DriverCall) => motor' = <<STOP_SPEED, STOP_SPEED>>]_vars

\* Navig executes the light test.
LightStep == npc = "light" /\ npc' # npc

\* C11 as claimed: light above the threshold while cp_state is B and seenL1
\* is false does not set seenL1.
C11_L1NotSetAtB ==
    [][(LightStep /\ Bright(lightVal) /\ cp_state = CP_B /\ ~seenL1) => ~seenL1']_vars

\* C11 amended: light above the threshold with seenL1 false sets seenL1
\* exactly when cp_state is before C, so it does at B.
C11_L1SetBeforeC ==
    [][(LightStep /\ Bright(lightVal) /\ ~seenL1) => (seenL1' <=> cp_state < CP_C)]_vars

\* C11 witness: L1 has just been latched at B (5 for A->B without the bonus,
\* 5 for L1).
C11_Witness ==
    /\ npc = "cp"
    /\ cp_state = CP_B
    /\ Bright(lightVal)
    /\ seenL1
    /\ score = 10

\* The statements of the L2 manoeuvre in program order, and what follows it.
L2Order == <<"l2_honk", "l2_rev_l", "l2_rev_r", "l2_rev_cmd", "l2_turn_l",
             "l2_turn_r", "l2_turn_cmd", "l2_score", "cp">>

\* C12: at D with seenL2 false and the light above the threshold the light
\* test sets seenL2 and performedL2Task and enters the manoeuvre; the
\* manoeuvre runs in program order, commands (REVERSE, REVERSE) and then
\* (MEDIUM, -LOW) with the fields holding the same pairs, and in a cycle with
\* the manoeuvre (a second and a third honk) and a reading other than 7 the
\* score changes only by the 15 added at its end.
C12_L2Manoeuvre ==
    /\ [][(LightStep /\ Bright(lightVal) /\ cp_state = CP_D /\ ~seenL2)
            => /\ seenL2'
               /\ performedL2Task'
               /\ npc' = L2Order[1]
               /\ score' = score]_vars
    /\ [][\A i \in 1 .. (Len(L2Order) - 1) :
              (npc = L2Order[i] /\ npc' # npc) => npc' = L2Order[i + 1]]_vars
    /\ [][(npc = "l2_rev_cmd" /\ npc' # npc)
            => /\ motor' = <<REVERSE_SPEED, REVERSE_SPEED>>
               /\ <<lspeed, rspeed>> = <<REVERSE_SPEED, REVERSE_SPEED>>]_vars
    /\ [][(npc = "l2_turn_cmd" /\ npc' # npc)
            => /\ motor' = <<MEDIUM_SPEED, -LOW_SPEED>>
               /\ <<lspeed, rspeed>> = <<MEDIUM_SPEED, -LOW_SPEED>>]_vars
    /\ [][((honks >= 2 \/ honks' >= 2) /\ code # 7)
            => score' = score + (IF npc = "l2_score" /\ npc' # npc THEN 15 ELSE 0)]_vars

\* C12 witness: the manoeuvre has run at D in a cycle whose reading is not 7.
C12_Witness ==
    /\ npc = "cp"
    /\ honks = 3
    /\ code # 7
    /\ cp_state = CP_D
    /\ seenL2 /\ performedL2Task
    /\ <<lspeed, rspeed>> = <<MEDIUM_SPEED, -LOW_SPEED>>
    /\ motor = <<MEDIUM_SPEED, -LOW_SPEED>>

\* C13: after the readings 2,2,2,7 from START with score 0, no light and no
\* obstacle, cp_state is A and the score is 0; in the cycle reading 7 the
\* fields are (0,0) after the first pair of assignments and (MEDIUM,MEDIUM)
\* from the second pair to the end of the cycle, which commands that pair.
C13_StartLineScenario ==
    /\ (cycles = Len(Script) /\ npc = "read")
            => /\ cp_state = CP_A
               /\ score = 0
               /\ motor = <<MEDIUM_SPEED, MEDIUM_SPEED>>
    /\ (code = 7 /\ npc = "bar_l") => <<lspeed, rspeed>> = <<STOP_SPEED, STOP_SPEED>>
    /\ (code = 7 /\ npc \in {"light", "cp", "gate", "apply"})
            => <<lspeed, rspeed>> = <<MEDIUM_SPEED, MEDIUM_SPEED>>

\* C13 witness: the fourth cycle has ended.
C13_Witness ==
    /\ cycles = Len(Script)
    /\ npc = "read"
    /\ cp_state = CP_A
    /\ <<lspeed, rspeed>> = <<MEDIUM_SPEED, MEDIUM_SPEED>>

\* C14: the horn sounds only in a Navig cycle whose light reading is above the
\* threshold while lightDetected was false; with lightDetected already true a
\* bright reading sounds no horn.
C14_HornEdgeTriggered ==
    [][(LightStep /\ honks' > honks) => (Bright(lightVal) /\ ~lightDetected)]_vars

\* C15: with the proximity sensor blocked for ever, once CheckCollision has
\* observed it (myrobot.obstacle is set) every command any task gives to the
\* motor driver is (0,0).
C15_BlockedMeansStopped ==
    [][(obstacle /\ DriverCall) => motor' = <<STOP_SPEED, STOP_SPEED>>]_vars

\* C16: a CheckCollision cycle that reads blocked while myrobot.obstacle is
\* already set commands (0,0) and changes neither the recovery sub-state, nor
\* the timer, nor the flag, whatever the sub-state is.
C16_HoldFreezes ==
    [][RenewedObstacle
         => /\ motor' = <<STOP_SPEED, STOP_SPEED>>
            /\ UNCHANGED <<obstacle_recovery_state, obstacle_timer, obstacle>>
            /\ cpc' = "sleep"]_vars

\* C16 witness: blocked is read while seeking the line, the timer running.
C16_Witness ==
    /\ cpc = "test"
    /\ current_obstacle
    /\ obstacle
    /\ obstacle_recovery_state = 2
    /\ obstacle_timer > 0
    /\ motor # <<STOP_SPEED, STOP_SPEED>>

\* C17: in every run where seenL2 becomes true the return manoeuvre is run:
\* the light step that latches seenL2 also latches performedL2Task and enters
\* the reverse-then-turn sequence, and a manoeuvre is entered only with
\* performedL2Task still false.
C17_ManoeuvreExactlyOnce ==
    [][/\ (LightStep /\ ~seenL2 /\ seenL2') => (performedL2Task' /\ npc' = L2Order[1])
       /\ (LightStep /\ npc' = L2Order[1]) => (~performedL2Task /\ performedL2Task')]_vars

\* C18: at the end of a Navig cycle with cp_state not DONE and no L2 manoeuvre
\* in the cycle, the fields depend on the line reading alone: 1 -> (50,35),
\* 2 -> (50,50), 3 -> (50,40), 4 -> (35,50), 5 -> (30,30), 6 -> (40,50); a
\* non-zero reading leaves lost_counter at 0 and is kept as last_valid_code.
C18_LinePolicy ==
    (npc \in {"gate", "apply"} /\ code # 0)
        => /\ lost_counter = 0
           /\ last_valid_code = code
           /\ (code \in 1..6 /\ cp_state # CP_DONE /\ honks < 3)
                => <<lspeed, rspeed>> =
                     (CASE code = 1 -> <<50, 35>>
                        [] code = 2 -> <<50, 50>>
                        [] code = 3 -> <<50, 40>>
                        [] code = 4 -> <<35, 50>>
                        [] code = 5 -> <<30, 30>>
                        [] code = 6 -> <<40, 50>>)

\* C18 witness: a cycle that found the line on the left after it had been
\* lost to the right is about to end.
C18_Witness ==
    /\ npc = "apply"
    /\ code = 4
    /\ <<lspeed, rspeed>> = <<35, 50>>
    /\ motor = <<LOW_SPEED, -LOW_SPEED>>
    /\ cp_state # CP_DONE

\* C19: the score stays between 0 and 60 and no step decreases it.
C19_ScoreBounded ==
    [][/\ 0 <= score /\ score <= 60
       /\ score <= score'
       /\ score' <= 60]_vars

\* C19 witness: every award has been collected.
C19_Witness ==
    /\ score = 60
    /\ cp_state = CP_DONE
    /\ seenL1 /\ seenL2 /\ performedL2Task

\* C20: every pair CntrlMotors gives to the motor driver is the initial (0,0)
\* or a pair Navig assigned as one left/right update, never a new left value
\* with the previous right value.
C20_NoTornPair ==
    [][MotorOutputStep => motor' \in NavPairs]_vars

====
